---- MODULE Spec2Model ----
(***************************************************************************)
(* Model of the useSequentialRequest hook (sequential request coordinator) *)
(* with its helpers useLatest and buildCancelableFetch.                    *)
(*                                                                         *)
(* Every trigger call creates one "request" (invocation) numbered in call  *)
(* order.  The synchronous body of the trigger is split at its source      *)
(* lines (cancel / build+install / run) so that the order of these steps   *)
(* is visible; no other code runs while a trigger call is in progress.     *)
(* The promise plumbing of run() and of the async trigger function is      *)
(* modelled one reaction job (microtask) at a time.                        *)
(*                                                                         *)
(* The other hooks (useDebounce, useEffectAfterMount, useControlledState,  *)
(* useApi, useDocVisible, useMounted, usePersistedState) are independent   *)
(* of the coordinator: each has its own variables and its own              *)
(* specification, which leaves the variables of the others unchanged.      *)
(***************************************************************************)
EXTENDS Integers, FiniteSets, Sequences, TLC

\* Bounds of the model
MaxCalls == 2
MaxFn == 2

Calls == 1..MaxCalls
Fns == 1..MaxFn

\* The error created by the catch handler of run()
CanceledError == "CanceledError"
\* Errors an Operation may reject with on its own
OpErrors == {"DomainError", "AbortError"}

\* The value Operation version f fulfills with
Result(f) == <<"value", f>>

\* Promise states: pending, fulfilled with a value, rejected with an error
Pending == <<"pending">>
Fulfilled(v) == <<"fulfilled", v>>
Rejected(e) == <<"rejected", e>>

VARIABLES
    requestFn,       \* the Operation passed to the hook by the latest render
    requestFnRef,    \* requestFnRef.current
    currentRequest,  \* currentRequest.current: 0 is null, i is request i's { cancel }
    mounted,         \* the owning component has not been unmounted
    nCalls,          \* number of requests built so far
    callPc,          \* position of the trigger call in progress ("idle" if none)
    requests         \* per request: its AbortController, promises and position

vars == <<requestFn, requestFnRef, currentRequest, mounted, nCalls, callPc, requests>>

\* Bounds of the useDebounce model
MaxDebCalls == 3
MaxDelay == 2

DebCalls == 1..MaxDebCalls
\* Arguments passed to the debounced function
DebArgs == {"test1", "test2"}

VARIABLES
    debMounted,      \* the component using useDebounce has not been unmounted
    timeoutRef,      \* timeoutRef.current: 0 is null, t is the id of call t's timer
    timers,          \* the host's timers, one per call of the debounced function
    nDebCalls,       \* number of calls of the debounced function so far
    invoked          \* the invocations of callback, in order

debVars == <<debMounted, timeoutRef, timers, nDebCalls, invoked>>

\* Bounds of the useEffectAfterMount model
MaxEamRenders == 6
MaxDepVal == 2

VARIABLES
    eamRenders,      \* number of renders of the component so far (0: not rendered)
    isMounted,       \* isMounted.current
    eamDeps,         \* the deps argument of the latest render: 0 is "not passed"
                     \* (the default []), v > 0 is the one-element array [v]
    fnCalls,         \* number of calls of fn so far
    eamLast          \* the latest render: did the dependency values change,
                     \* and did its effect call fn

eamVars == <<eamRenders, isMounted, eamDeps, fnCalls, eamLast>>

\* Bounds of the useControlledState model
MaxSetCalls == 3
MaxPropVal == 1

\* The defaultValue argument
UcsDefault == 0
\* The value argument: <<>> is undefined, <<v>> is the value v
Undefined == <<>>
PropVals == {Undefined} \cup {<<v>> : v \in 0..MaxPropVal}

VARIABLES
    ucsMounted,      \* the component using useControlledState has rendered
    valueProp,       \* the value argument of the latest render
    internalValue,   \* the state cell of useState(defaultValue)
    stateQueue,      \* the pending update of the state cell: <<>> or <<v>>
    currentValueRef, \* currentValueRef.current
    onChangeLog,     \* the arguments of the onChange calls, in order
    nSetCalls,       \* number of setValue calls so far
    onlyIncrements,  \* every setValue call so far was prev => prev + 1 made
                     \* in uncontrolled mode
    lastSetKind      \* the argument of the latest setValue call: "none" before
                     \* the first call, then "updater" or "value"

ucsVars == <<ucsMounted, valueProp, internalValue, stateQueue, currentValueRef,
             onChangeLog, nSetCalls, onlyIncrements, lastSetKind>>

\* Bounds of the useApi model
MaxFetches == 3
MaxUrl == 2

Fetches == 1..MaxFetches
Urls == 1..MaxUrl

VARIABLES
    apiMounted,      \* the component using useApi has rendered
    apiUrl,          \* the url argument of the latest render (0 before it)
    loading,         \* the state cell of useState(true)
    data,            \* the state cell of useState(null) for data
    error,           \* the state cell of useState(null) for error
    nFetches,        \* number of fetchApi calls so far
    fetches          \* per fetchApi call: its url, its position and its outcome

apiVars == <<apiMounted, apiUrl, loading, data, error, nFetches, fetches>>

\* Bounds of the useDocVisible model
MaxDocEvents == 4
MaxCb == 2

\* The values of document.visibilityState
VisibilityStates == {"visible", "hidden", "prerender"}
\* options?.onChange: 0 is undefined, k > 0 is the k-th callback function
Callbacks == 0..MaxCb

VARIABLES
    dvPhase,         \* "init" before the first render, "mounted", "gone" after unmount
    visibilityState, \* document.visibilityState
    isVisible,       \* the value returned by the latest render
    dvOnChange,      \* options?.onChange of the latest render
    onChangeRef,     \* onChangeRef.current
    prevVisibleRef,  \* prevVisibleRef.current
    dvRefPending,    \* the effects of the latest render have not run yet
    dvLog,           \* the calls of onChange callbacks, in order
    nDocEvents       \* number of visibilitychange events dispatched so far

dvVars == <<dvPhase, visibilityState, isVisible, dvOnChange, onChangeRef,
            prevVisibleRef, dvRefPending, dvLog, nDocEvents>>

\* Bounds of the useMounted model
MaxUmCb == 2

\* The options argument: onMount and onUnmount are 0 (not passed) or the k-th
\* function passed; returnsCleanup says that onMount returns a cleanup function
UmOptions ==
    {o \in [onMount : 0..MaxUmCb, returnsCleanup : BOOLEAN, onUnmount : 0..MaxUmCb] :
        o.onMount = 0 => ~o.returnsCleanup}

VARIABLES
    umPhase,         \* "init", "rendered" (effect not run yet), "mounted", "gone"
    umIsMounted,     \* isMounted.current of useMounted
    cleanupRef,      \* cleanupRef.current: 0 is undefined, k is the cleanup
                     \* function returned by the onMount function k
    umFirst,         \* the options of the first render, which the effect closes over
    umLatest,        \* the options of the latest render
    umLog            \* the calls of onMount, of its cleanup and of onUnmount, in
                     \* order, each with the value of isMounted.current it sees

umVars == <<umPhase, umIsMounted, cleanupRef, umFirst, umLatest, umLog>>

\* Bounds of the usePersistedState model
MaxPsVal == 1
MaxPsKey == 2
MaxPsOps == 3

\* State values and localStorage keys
PsVals == 0..MaxPsVal
PsKeys == 1..MaxPsKey

\* getItem's null (no item under the key), the empty string, a string that
\* is not JSON, the text JSON.stringify produces for v, and another JSON text
\* of the same value (with white space)
NoItem == <<"null">>
EmptyString == <<"">>
Malformed == <<"malformed">>
stringify(v) == <<"json", v>>
Spaced(v) == <<"json with white space", v>>
PsStrings == {EmptyString, Malformed} \cup {stringify(v) : v \in PsVals}
                 \cup {Spaced(v) : v \in PsVals}

VARIABLES
    psPhase,         \* "init" before the first render, "mounted", "gone" after unmount
    psKey,           \* the key argument (0 before the first render)
    localStorage,    \* localStorage: per key a string or NoItem
    psValue,         \* the state cell "value" of usePersistedState
    isFirstRender,   \* isFirstRender.current
    psEffectPending, \* the effect on [key, value] of the latest render has not run
    psErrors,        \* number of console.error calls
    psWarnings,      \* number of console.warn calls
    psLastChange,    \* what changed the state last: "none", "setter" or "event"
    psLastEvent,     \* key and newValue of the latest storage event
    nPsSets,         \* number of setter calls so far
    nPsEvents        \* number of storage events so far

psVars == <<psPhase, psKey, localStorage, psValue, isFirstRender, psEffectPending,
            psErrors, psWarnings, psLastChange, psLastEvent, nPsSets, nPsEvents>>

\* The variables of the hooks other than useSequentialRequest
nonSeqVars == <<debVars, eamVars, ucsVars, apiVars, dvVars, umVars, psVars>>
\* The variables of the hooks other than useDebounce
nonDebVars == <<vars, eamVars, ucsVars, apiVars, dvVars, umVars, psVars>>
\* The variables of the hooks other than useEffectAfterMount
nonEamVars == <<vars, debVars, ucsVars, apiVars, dvVars, umVars, psVars>>
\* The variables of the hooks other than useControlledState
nonUcsVars == <<vars, debVars, eamVars, apiVars, dvVars, umVars, psVars>>

\* The variables of the hooks other than useApi
nonApiVars == <<vars, debVars, eamVars, ucsVars, dvVars, umVars, psVars>>

\* The variables of the hooks other than useDocVisible
nonDvVars == <<vars, debVars, eamVars, ucsVars, apiVars, umVars, psVars>>

\* The variables of the hooks other than useMounted
nonUmVars == <<vars, debVars, eamVars, ucsVars, apiVars, dvVars, psVars>>

\* The variables of the hooks other than usePersistedState
nonPsVars == <<vars, debVars, eamVars, ucsVars, apiVars, dvVars, umVars>>

allVars == <<vars, debVars, eamVars, ucsVars, apiVars, dvVars, umVars, psVars>>

\* useControlledState before the first render
UcsInit ==
    /\ ucsMounted = FALSE
    /\ valueProp = Undefined
    /\ internalValue = UcsDefault
    /\ stateQueue = <<>>
    /\ currentValueRef = UcsDefault
    /\ onChangeLog = <<>>
    /\ nSetCalls = 0
    /\ onlyIncrements = TRUE
    /\ lastSetKind = "none"

\* useEffectAfterMount before the first render
EamInit ==
    /\ eamRenders = 0
    /\ isMounted = FALSE
    /\ eamDeps = 0
    /\ fnCalls = 0
    /\ eamLast = [changed |-> FALSE, called |-> FALSE]

\* A timer that has not been created yet
NoTimer == [status |-> "none", args |-> "", left |-> 0, mountedAtCall |-> FALSE]

\* useDebounce after the first render: timeoutRef = useRef(null)
DebInit ==
    /\ debMounted = TRUE
    /\ timeoutRef = 0
    /\ timers = [t \in DebCalls |-> NoTimer]
    /\ nDebCalls = 0
    /\ invoked = <<>>

\* A request that has not been built yet
NoRequest ==
    [fn |-> 0, aborted |-> FALSE, notified |-> 0, cancels |-> 0, cancelAt |-> "none",
     superseded |-> FALSE, pc |-> "none",
     op |-> Pending, runP |-> Pending, out |-> Pending]

\* buildCancelableFetch(requestFn): a fresh AbortController around requestFn
buildCancelableFetch(f) ==
    [NoRequest EXCEPT !.fn = f, !.pc = "built"]

\* Variant of cancel: the abort listeners are notified by every call
cancel_Renotify(r) ==
    [r EXCEPT !.aborted = TRUE,
              !.notified = @ + 1,
              !.cancels = @ + 1,
              !.cancelAt = IF r.aborted THEN @ ELSE r.pc]

\* cancel: () => abortController.abort(); abort() on an aborted signal does
\* nothing, on a fresh one it sets the flag and dispatches the abort event
cancel(r) ==
    [r EXCEPT !.aborted = TRUE,
              !.notified = IF r.aborted THEN @ ELSE @ + 1,
              !.cancels = @ + 1,
              !.cancelAt = IF r.aborted THEN @ ELSE r.pc]

\* null
Null == <<"null">>

\* A fetchApi call that has not been made yet
NoFetch == [url |-> 0, pc |-> "none", outcome |-> "none"]

\* useApi before the first render: useState(true), useState(null), useState(null)
ApiInit ==
    /\ apiMounted = FALSE
    /\ apiUrl = 0
    /\ loading = TRUE
    /\ data = Null
    /\ error = Null
    /\ nFetches = 0
    /\ fetches = [i \in Fetches |-> NoFetch]

\* useDocVisible before the first render, in a visible document
DvInit ==
    /\ dvPhase = "init"
    /\ visibilityState = "visible"
    /\ isVisible = TRUE
    /\ dvOnChange = 0
    /\ onChangeRef = 0
    /\ prevVisibleRef = TRUE
    /\ dvRefPending = FALSE
    /\ dvLog = <<>>
    /\ nDocEvents = 0

\* useMounted called without options
UmNoOptions == [onMount |-> 0, returnsCleanup |-> FALSE, onUnmount |-> 0]

\* useMounted before the first render
UmInit ==
    /\ umPhase = "init"
    /\ umIsMounted = FALSE
    /\ cleanupRef = 0
    /\ umFirst = UmNoOptions
    /\ umLatest = UmNoOptions
    /\ umLog = <<>>

\* usePersistedState before the first render, with an empty localStorage
PsInit ==
    /\ psPhase = "init"
    /\ psKey = 0
    /\ localStorage = [k \in PsKeys |-> NoItem]
    /\ psValue = 0
    /\ isFirstRender = TRUE
    /\ psEffectPending = FALSE
    /\ psErrors = 0
    /\ psWarnings = 0
    /\ psLastChange = "none"
    /\ psLastEvent = [key |-> 0, newValue |-> NoItem]
    /\ nPsSets = 0
    /\ nPsEvents = 0

Init ==
    /\ requestFn = 1
    /\ requestFnRef = 1
    /\ currentRequest = 0
    /\ mounted = TRUE
    /\ nCalls = 0
    /\ callPc = "idle"
    /\ requests = [i \in Calls |-> NoRequest]
    /\ DebInit
    /\ EamInit
    /\ UcsInit
    /\ ApiInit
    /\ DvInit
    /\ UmInit
    /\ PsInit

\* A re-render of the owning component with a new Operation reference: every
\* render creates a new function, numbered in render order.
\* Passive effects of the previous render are flushed before a new render.
Render ==
    /\ mounted
    /\ callPc = "idle"
    /\ requestFn = requestFnRef
    /\ requestFn < MaxFn
    /\ requestFn' = requestFn + 1
    /\ UNCHANGED <<requestFnRef, currentRequest, mounted, nCalls, callPc, requests>>
    /\ UNCHANGED nonSeqVars

\* Variant of useLatest: the effect also cancels the request in the slot
useLatest_Cancel ==
    /\ mounted
    /\ callPc = "idle"
    /\ requestFn # requestFnRef
    /\ requestFnRef' = requestFn
    /\ requests' = IF currentRequest # 0
                   THEN [requests EXCEPT ![currentRequest] = cancel(@)]
                   ELSE requests
    /\ UNCHANGED <<requestFn, currentRequest, mounted, nCalls, callPc>>
    /\ UNCHANGED nonSeqVars

\* useLatest: the passive effect that runs after the render
useLatest ==
    /\ mounted
    /\ callPc = "idle"
    /\ requestFn # requestFnRef
    /\ requestFnRef' = requestFn
    /\ UNCHANGED <<requestFn, currentRequest, mounted, nCalls, callPc, requests>>
    /\ UNCHANGED nonSeqVars

\* Variant of Teardown: the cleanup cancels every request built so far
Teardown_CancelAll ==
    /\ mounted
    /\ callPc = "idle"
    /\ requestFn = requestFnRef
    /\ mounted' = FALSE
    /\ requests' = [i \in Calls |-> IF requests[i].pc # "none"
                                     THEN cancel(requests[i])
                                     ELSE requests[i]]
    /\ UNCHANGED <<requestFn, requestFnRef, currentRequest, nCalls, callPc>>
    /\ UNCHANGED nonSeqVars

\* Variant of Teardown: the cleanup also empties the slot
Teardown_ClearSlot ==
    /\ mounted
    /\ callPc = "idle"
    /\ requestFn = requestFnRef
    /\ mounted' = FALSE
    /\ requests' = IF currentRequest # 0
                   THEN [requests EXCEPT ![currentRequest] = cancel(@)]
                   ELSE requests
    /\ currentRequest' = 0
    /\ UNCHANGED <<requestFn, requestFnRef, nCalls, callPc>>
    /\ UNCHANGED nonSeqVars

\* The cleanup of the unmount effect
Teardown ==
    /\ mounted
    /\ callPc = "idle"
    /\ requestFn = requestFnRef
    /\ mounted' = FALSE
    /\ requests' = IF currentRequest # 0
                   THEN [requests EXCEPT ![currentRequest] = cancel(@)]
                   ELSE requests
    /\ UNCHANGED <<requestFn, requestFnRef, currentRequest, nCalls, callPc>>
    /\ UNCHANGED nonSeqVars

\* Variant of TriggerCancel: the occupant of the slot is not cancelled
TriggerCancel_Skip ==
    /\ callPc = "idle"
    /\ nCalls < MaxCalls
    /\ callPc' = "cancelled"
    /\ UNCHANGED <<requestFn, requestFnRef, currentRequest, mounted, nCalls, requests>>
    /\ UNCHANGED nonSeqVars

\* trigger, first statement: cancel the occupant of the slot
TriggerCancel ==
    /\ callPc = "idle"
    /\ nCalls < MaxCalls
    /\ callPc' = "cancelled"
    /\ requests' = IF currentRequest # 0
                   THEN [requests EXCEPT ![currentRequest] =
                            [cancel(@) EXCEPT !.superseded =
                                 @ \/ requests[currentRequest].pc = "opPending"]]
                   ELSE requests
    /\ UNCHANGED <<requestFn, requestFnRef, currentRequest, mounted, nCalls>>
    /\ UNCHANGED nonSeqVars

\* Variant of TriggerInstall: the new request is not stored in the slot
TriggerInstall_NoInstall ==
    /\ callPc = "cancelled"
    /\ callPc' = "installed"
    /\ nCalls' = nCalls + 1
    /\ requests' = [requests EXCEPT ![nCalls + 1] = buildCancelableFetch(requestFnRef)]
    /\ UNCHANGED <<requestFn, requestFnRef, currentRequest, mounted>>
    /\ UNCHANGED nonSeqVars

\* Variant of TriggerInstall: a request built after the unmount is born aborted
TriggerInstall_AbortIfUnmounted ==
    /\ callPc = "cancelled"
    /\ callPc' = "installed"
    /\ nCalls' = nCalls + 1
    /\ requests' = [requests EXCEPT ![nCalls + 1] =
                       IF mounted
                       THEN buildCancelableFetch(requestFnRef)
                       ELSE cancel(buildCancelableFetch(requestFnRef))]
    /\ currentRequest' = nCalls + 1
    /\ UNCHANGED <<requestFn, requestFnRef, mounted>>
    /\ UNCHANGED nonSeqVars

\* trigger, second and third statement: build the request and install it
TriggerInstall ==
    /\ callPc = "cancelled"
    /\ callPc' = "installed"
    /\ nCalls' = nCalls + 1
    /\ requests' = [requests EXCEPT ![nCalls + 1] = buildCancelableFetch(requestFnRef)]
    /\ currentRequest' = nCalls + 1
    /\ UNCHANGED <<requestFn, requestFnRef, mounted>>
    /\ UNCHANGED nonSeqVars

\* trigger, run(): the Operation is invoked with the request's signal
TriggerRun ==
    /\ callPc = "installed"
    /\ callPc' = "idle"
    /\ requests' = [requests EXCEPT ![nCalls].pc = "opPending"]
    /\ UNCHANGED <<requestFn, requestFnRef, currentRequest, mounted, nCalls>>
    /\ UNCHANGED nonSeqVars

\* The Operation's promise fulfills (the Operation may ignore its signal)
OpFulfill(i) ==
    /\ callPc = "idle"
    /\ requests[i].pc = "opPending"
    /\ requests' = [requests EXCEPT ![i].op = Fulfilled(Result(requests[i].fn)),
                                    ![i].pc = "thenJob"]
    /\ UNCHANGED <<requestFn, requestFnRef, currentRequest, mounted, nCalls, callPc>>
    /\ UNCHANGED nonSeqVars

\* The Operation's promise rejects; "AbortError" is its reaction to the abort
OpReject(i, e) ==
    /\ callPc = "idle"
    /\ requests[i].pc = "opPending"
    /\ e = "AbortError" => requests[i].aborted
    /\ requests' = [requests EXCEPT ![i].op = Rejected(e),
                                    ![i].pc = "thenJob"]
    /\ UNCHANGED <<requestFn, requestFnRef, currentRequest, mounted, nCalls, callPc>>
    /\ UNCHANGED nonSeqVars

\* .then(resolve): resolve the run() promise, or pass the rejection on to .catch
ThenJob(i) ==
    /\ callPc = "idle"
    /\ requests[i].pc = "thenJob"
    /\ requests' = IF requests[i].op[1] = "fulfilled"
                   THEN [requests EXCEPT ![i].runP = requests[i].op,
                                         ![i].pc = "awaitJob"]
                   ELSE [requests EXCEPT ![i].pc = "catchJob"]
    /\ UNCHANGED <<requestFn, requestFnRef, currentRequest, mounted, nCalls, callPc>>
    /\ UNCHANGED nonSeqVars

\* Variant of CatchJob: the handler rejects with the cancellation error
\* without reading signal.aborted
CatchJob_AlwaysCanceled(i) ==
    /\ callPc = "idle"
    /\ requests[i].pc = "catchJob"
    /\ requests' = [requests EXCEPT ![i].runP = Rejected(CanceledError),
                                    ![i].pc = "awaitJob"]
    /\ UNCHANGED <<requestFn, requestFnRef, currentRequest, mounted, nCalls, callPc>>
    /\ UNCHANGED nonSeqVars

\* Variant of CatchJob: an Operation that failed without being aborted is
\* invoked again
CatchJob_Retry(i) ==
    /\ callPc = "idle"
    /\ requests[i].pc = "catchJob"
    /\ requests' = IF requests[i].aborted
                   THEN [requests EXCEPT ![i].runP = Rejected(CanceledError),
                                         ![i].pc = "awaitJob"]
                   ELSE [requests EXCEPT ![i].op = Pending,
                                         ![i].pc = "opPending"]
    /\ UNCHANGED <<requestFn, requestFnRef, currentRequest, mounted, nCalls, callPc>>
    /\ UNCHANGED nonSeqVars

\* Variant of CatchJob: the handler uses the abort flag as it was when the
\* Operation's promise rejected
CatchJob_FlagAtRejection(i) ==
    /\ callPc = "idle"
    /\ requests[i].pc = "catchJob"
    /\ requests' = [requests EXCEPT
                       ![i].runP = IF requests[i].cancelAt \in {"built", "opPending"}
                                   THEN Rejected(CanceledError)
                                   ELSE requests[i].op,
                       ![i].pc = "awaitJob"]
    /\ UNCHANGED <<requestFn, requestFnRef, currentRequest, mounted, nCalls, callPc>>
    /\ UNCHANGED nonSeqVars

\* .catch(handler): reject the run() promise
CatchJob(i) ==
    /\ callPc = "idle"
    /\ requests[i].pc = "catchJob"
    /\ requests' = [requests EXCEPT
                       ![i].runP = IF requests[i].aborted
                                   THEN Rejected(CanceledError)
                                   ELSE requests[i].op,
                       ![i].pc = "awaitJob"]
    /\ UNCHANGED <<requestFn, requestFnRef, currentRequest, mounted, nCalls, callPc>>
    /\ UNCHANGED nonSeqVars

\* Variant of Finally: "await run()" without "return"
Finally_NoReturn(i) ==
    /\ callPc = "idle"
    /\ requests[i].pc = "awaitJob"
    /\ currentRequest' = IF currentRequest = i THEN 0 ELSE currentRequest
    /\ requests' = [requests EXCEPT
                       ![i].out = IF requests[i].runP[1] = "fulfilled"
                                  THEN Fulfilled(<<"undefined", 0>>)
                                  ELSE requests[i].runP,
                       ![i].pc = "done"]
    /\ UNCHANGED <<requestFn, requestFnRef, mounted, nCalls, callPc>>
    /\ UNCHANGED nonSeqVars

\* Variant of Finally: the slot is not cleared
Finally_NoClear(i) ==
    /\ callPc = "idle"
    /\ requests[i].pc = "awaitJob"
    /\ requests' = [requests EXCEPT ![i].out = requests[i].runP,
                                    ![i].pc = "done"]
    /\ UNCHANGED <<requestFn, requestFnRef, currentRequest, mounted, nCalls, callPc>>
    /\ UNCHANGED nonSeqVars

\* Variant of Finally: the slot is cleared whoever occupies it
Finally_AlwaysClear(i) ==
    /\ callPc = "idle"
    /\ requests[i].pc = "awaitJob"
    /\ currentRequest' = 0
    /\ requests' = [requests EXCEPT ![i].out = requests[i].runP,
                                    ![i].pc = "done"]
    /\ UNCHANGED <<requestFn, requestFnRef, mounted, nCalls, callPc>>
    /\ UNCHANGED nonSeqVars

\* Variant of Finally: a request that no longer occupies the slot reports the
\* cancellation error
Finally_StaleCheck(i) ==
    /\ callPc = "idle"
    /\ requests[i].pc = "awaitJob"
    /\ currentRequest' = IF currentRequest = i THEN 0 ELSE currentRequest
    /\ requests' = [requests EXCEPT
                       ![i].out = IF currentRequest = i
                                  THEN requests[i].runP
                                  ELSE Rejected(CanceledError),
                       ![i].pc = "done"]
    /\ UNCHANGED <<requestFn, requestFnRef, mounted, nCalls, callPc>>
    /\ UNCHANGED nonSeqVars

\* The continuation of "await run()": the finally block, then the trigger's
\* promise settles as the run() promise did
Finally(i) ==
    /\ callPc = "idle"
    /\ requests[i].pc = "awaitJob"
    /\ currentRequest' = IF currentRequest = i THEN 0 ELSE currentRequest
    /\ requests' = [requests EXCEPT ![i].out = requests[i].runP,
                                    ![i].pc = "done"]
    /\ UNCHANGED <<requestFn, requestFnRef, mounted, nCalls, callPc>>
    /\ UNCHANGED nonSeqVars

Next ==
    \/ Render
    \/ useLatest
    \/ Teardown
    \/ TriggerCancel
    \/ TriggerInstall
    \/ TriggerRun
    \/ \E i \in Calls : OpFulfill(i)
    \/ \E i \in Calls, e \in OpErrors : OpReject(i, e)
    \/ \E i \in Calls : ThenJob(i)
    \/ \E i \in Calls : CatchJob(i)
    \/ \E i \in Calls : Finally(i)

Spec == Init /\ [][Next]_allVars

\* The reaction jobs are run by the microtask queue and the synchronous body
\* of a trigger call runs to completion; Operations need not ever settle.
FairSpec ==
    /\ Spec
    /\ WF_vars(TriggerInstall)
    /\ WF_vars(TriggerRun)
    /\ \A i \in Calls : WF_vars(ThenJob(i))
    /\ \A i \in Calls : WF_vars(CatchJob(i))
    /\ \A i \in Calls : WF_vars(Finally(i))

TypeOK ==
    /\ requestFn \in Fns
    /\ requestFnRef \in Fns
    /\ currentRequest \in 0..MaxCalls
    /\ mounted \in BOOLEAN
    /\ nCalls \in 0..MaxCalls
    /\ callPc \in {"idle", "cancelled", "installed"}
    /\ \A i \in Calls :
        /\ requests[i].fn \in 0..MaxFn
        /\ requests[i].aborted \in BOOLEAN
        /\ requests[i].cancels \in 0..2
        /\ requests[i].aborted <=> requests[i].cancels > 0
        /\ requests[i].notified \in 0..1
        /\ requests[i].pc \in {"none", "built", "opPending", "thenJob",
                               "catchJob", "awaitJob", "done"}
        /\ (requests[i].pc = "none") <=> (i > nCalls)
        /\ (requests[i].op = Pending) <=> (requests[i].pc \in {"none", "built", "opPending"})

\* A request whose trigger promise is unsettled and whose signal is not aborted
Live(i) == requests[i].pc \notin {"none", "done"} /\ ~requests[i].aborted

----
\* C1: whenever the slot switches from one request to a new one, the previous
\* occupant's signal is aborted already (the cancel came first in the same
\* trigger call) and the new request's Operation has not been invoked yet.
C1_CancelBeforeInstall ==
    [][(currentRequest # 0 /\ currentRequest' # 0 /\ currentRequest' # currentRequest)
        => /\ requests[currentRequest].aborted
           /\ requests'[currentRequest].aborted
           /\ requests[currentRequest'].pc = "none"
           /\ requests'[currentRequest'].pc = "built"]_vars

\* C1 witness: the second request has just been installed over a first one
\* that is still in flight and whose signal is aborted.
C1_Witness ==
    /\ callPc = "installed"
    /\ currentRequest = 2
    /\ requests[2].pc = "built"
    /\ requests[1].pc = "opPending"
    /\ requests[1].aborted

\* C2: at most one request is both unsettled and un-aborted in every state;
\* and when the N-th trigger call returns with no Operation settled so far,
\* the slot holds request N, the signals of requests 1..N-1 are aborted and
\* the signal of request N is not.
C2_AtMostOneLive ==
    /\ [](Cardinality({i \in Calls : Live(i)}) <= 1)
    /\ [][(/\ callPc = "installed"
           /\ callPc' = "idle"
           /\ \A i \in 1..nCalls' : requests'[i].pc = "opPending")
          => /\ currentRequest' = nCalls'
             /\ \A j \in 1..(nCalls' - 1) : requests'[j].aborted
             /\ ~requests'[nCalls'].aborted]_vars

\* C2 witness: two trigger calls were issued and neither Operation has settled.
C2_Witness ==
    /\ callPc = "idle"
    /\ nCalls = 2
    /\ \A i \in 1..2 : requests[i].pc = "opPending"
    /\ currentRequest = 2
    /\ requests[1].aborted
    /\ ~requests[2].aborted

\* C3 (as claimed): the promise of a trigger call that was superseded while
\* its Operation was pending settles only as a rejection with the
\* cancellation error.
C3_SupersededRejectsCanceled ==
    \A i \in Calls :
        (requests[i].superseded /\ requests[i].out # Pending)
            => requests[i].out = Rejected(CanceledError)

\* C4 (as claimed): a request cancelled before its Operation settled never
\* delivers a fulfilment value, neither from run() nor from the trigger call.
C4_CancelWinsOverFulfilment ==
    \A i \in Calls :
        requests[i].cancelAt = "opPending"
            => /\ requests[i].runP[1] # "fulfilled"
               /\ requests[i].out[1] # "fulfilled"

\* C5: for a request on which cancel was never invoked, the run() promise and
\* the trigger promise settle with exactly the Operation's own outcome.
C5_UncancelledForwardsOutcome ==
    \A i \in Calls :
        requests[i].cancels = 0
            => /\ requests[i].runP \in {Pending, requests[i].op}
               /\ requests[i].out \in {Pending, requests[i].op}
               /\ requests[i].pc = "done" => requests[i].out = requests[i].op

\* C5 witness: an Operation rejected with a domain error, nobody cancelled it,
\* and the trigger promise has settled.
C5_Witness ==
    \E i \in Calls :
        /\ requests[i].cancels = 0
        /\ requests[i].op = Rejected("DomainError")
        /\ requests[i].out = Rejected("DomainError")

\* C6: a trigger promise, once settled, never changes; it is settled exactly
\* when the settlement continuation has run, with the Operation's value, the
\* Operation's error or the cancellation error; and no settlement is
\* swallowed: eventually every request whose Operation's promise has settled
\* has its trigger promise settled (both are stable once true).
C6_ExactlyOneOutcome ==
    /\ [][\A i \in Calls :
            requests[i].out # Pending => requests'[i].out = requests[i].out]_vars
    /\ [](\A i \in Calls :
            /\ (requests[i].out # Pending) <=> (requests[i].pc = "done")
            /\ requests[i].out \in {Pending, requests[i].op, Rejected(CanceledError)})
    /\ <>[](\A i \in Calls :
            requests[i].op # Pending => requests[i].out # Pending)

\* C6 witness: one trigger promise rejected with the cancellation error and
\* another one fulfilled with its Operation's value.
C6_Witness ==
    /\ requests[1].out = Rejected(CanceledError)
    /\ requests[2].out = Fulfilled(Result(requests[2].fn))

\* C7: when the settlement continuation of the request occupying the slot
\* runs, the slot becomes empty; and a trigger call that finds the slot empty
\* cancels nothing.
C7_SettlementClearsSlot ==
    [][/\ \A i \in Calls :
            (requests[i].pc = "awaitJob" /\ requests'[i].pc = "done"
                /\ currentRequest = i) => currentRequest' = 0
       /\ (callPc = "idle" /\ callPc' = "cancelled" /\ currentRequest = 0)
            => requests' = requests]_vars

\* C7 witness: the first request settled un-superseded, the slot is empty and
\* the next trigger call has passed its cancel statement without a cancel.
C7_Witness ==
    /\ requests[1].pc = "done"
    /\ requests[1].cancels = 0
    /\ currentRequest = 0
    /\ callPc = "cancelled"

\* C8: the settlement continuation of a request that no longer occupies the
\* slot leaves the slot and every other request unchanged.
C8_SupersededLeavesSlot ==
    [][\A i \in Calls :
        (requests[i].pc = "awaitJob" /\ requests'[i].pc = "done"
            /\ currentRequest # i)
        => /\ currentRequest' = currentRequest
           /\ \A j \in Calls \ {i} : requests'[j] = requests[j]]_vars

\* C8 witness: the superseded first request has settled while the second one
\* occupies the slot, in flight and not aborted.
C8_Witness ==
    /\ requests[1].pc = "done"
    /\ requests[1].superseded
    /\ currentRequest = 2
    /\ requests[2].pc = "opPending"
    /\ ~requests[2].aborted

\* C9: teardown happens at most once; with an occupied slot it invokes cancel
\* on the occupant exactly once and touches no other request; with an empty
\* slot it cancels nothing and leaves the coordinator's state unchanged.
C9_CleanupOnDestroy ==
    /\ [][~mounted => ~mounted']_vars
    /\ [][(mounted /\ ~mounted')
          => /\ UNCHANGED <<currentRequest, requestFnRef, nCalls, callPc>>
             /\ IF currentRequest # 0
                THEN /\ requests[currentRequest].cancels = 0
                     /\ requests'[currentRequest].cancels = 1
                     /\ requests'[currentRequest].aborted
                     /\ \A j \in Calls \ {currentRequest} :
                            requests'[j] = requests[j]
                ELSE requests' = requests]_vars

\* C9 witness: the component was unmounted while a request was in flight.
C9_Witness ==
    /\ ~mounted
    /\ currentRequest # 0
    /\ requests[currentRequest].cancelAt = "opPending"
    /\ requests[currentRequest].cancels = 1
    /\ requests[currentRequest].aborted

\* C10 (as claimed): a request built by a trigger call wraps the Operation
\* supplied by the latest render.
C10_NextCallUsesNewest ==
    [][(callPc = "cancelled" /\ callPc' = "installed")
        => requests'[nCalls'].fn = requestFn]_vars
\* C11: a change of the Operation reference (the render or the useLatest
\* effect) leaves every request and the slot unchanged; a request keeps the
\* Operation it was built with, and a fulfilled trigger promise carries the
\* value of that Operation version.
C11_RefChangeLeavesInFlight ==
    /\ [][(requestFn' # requestFn \/ requestFnRef' # requestFnRef)
            => (requests' = requests /\ currentRequest' = currentRequest)]_vars
    /\ [][\A i \in Calls :
            requests[i].pc # "none" => requests'[i].fn = requests[i].fn]_vars
    /\ [](\A i \in Calls :
            requests[i].out[1] = "fulfilled"
                => requests[i].out = Fulfilled(Result(requests[i].fn)))

\* C11 witness: the first request was built with Operation 1, the reference
\* changed to Operation 2 afterwards, and the request fulfilled un-cancelled
\* with Operation 1's value.
C11_Witness ==
    /\ requests[1].fn = 1
    /\ requestFnRef = 2
    /\ requests[1].cancels = 0
    /\ requests[1].out = Fulfilled(Result(1))

\* C12 (as claimed): once the Operation of a request that was never cancelled
\* has settled, no step invokes cancel on that request.
C12_SettledNeverCancelled ==
    [][\A i \in Calls :
        (requests[i].op # Pending /\ requests[i].cancels = 0)
            => requests'[i].cancels = 0]_vars

\* C12 (amended): once the settlement continuation of a request has run, no
\* step invokes cancel on that request, and the request is not in the slot.
C12_DoneNeverCancelled ==
    /\ [][\A i \in Calls :
            requests[i].pc = "done"
                => requests'[i].cancels = requests[i].cancels]_vars
    /\ [](\A i \in Calls : requests[i].pc = "done" => currentRequest # i)

\* C12 witness: the first request completed and was never cancelled although a
\* second trigger call and then the teardown (which cancelled the second
\* request in flight) came after it.
C12_Witness ==
    /\ requests[1].pc = "done"
    /\ requests[1].cancels = 0
    /\ ~mounted
    /\ requests[2].cancelAt = "opPending"
    /\ requests[2].cancels = 1
    /\ ~requests[2].superseded

\* C13: the run() promise or the trigger promise is rejected with the
\* cancellation error only if cancel was invoked on that very request before
\* the catch handler produced the rejection.
C13_CanceledOnlyIfCancelled ==
    \A i \in Calls :
        (requests[i].runP = Rejected(CanceledError)
            \/ requests[i].out = Rejected(CanceledError))
        => /\ requests[i].cancels > 0
           /\ requests[i].aborted
           /\ requests[i].cancelAt \in {"opPending", "thenJob", "catchJob"}

\* C13 witness: a trigger promise rejected with the cancellation error for a
\* request that was cancelled once.
C13_Witness ==
    \E i \in Calls :
        /\ requests[i].out = Rejected(CanceledError)
        /\ requests[i].cancels = 1
        /\ requests[i].op = Rejected("AbortError")

\* C14: the Operation of a request is invoked once, by the trigger call that
\* built it, with a signal that is not aborted; between trigger calls the
\* requests whose Operation was invoked are exactly the requests built; and a
\* step aborts at most one signal, that of the occupant of the slot.
C14_InvokedExactlyOnce ==
    /\ [][\A i \in Calls :
            (requests'[i].pc = "opPending" /\ requests[i].pc # "opPending")
                => /\ requests[i].pc = "built"
                   /\ callPc = "installed"
                   /\ i = nCalls
                   /\ ~requests[i].aborted
                   /\ ~requests'[i].aborted]_vars
    /\ [](callPc = "idle"
            => \A i \in Calls :
                (i <= nCalls) <=> (requests[i].pc \notin {"none", "built"}))
    /\ [][\A i \in Calls :
            (requests'[i].aborted /\ ~requests[i].aborted) => i = currentRequest]_vars

\* C14 witness: the first Operation rejected without being cancelled and was
\* not invoked again; the second trigger call invoked its own Operation.
C14_Witness ==
    /\ callPc = "idle"
    /\ nCalls = 2
    /\ requests[1].pc = "done"
    /\ requests[1].cancels = 0
    /\ requests[1].op[1] = "rejected"
    /\ requests[2].pc = "opPending"
    /\ ~requests[2].aborted

\* The outcome of a trigger promise as a function of its own request only:
\* the Operation's outcome and the position at which the request's own
\* signal was first aborted
OwnOutcome(r) ==
    IF r.op[1] = "rejected" /\ r.cancelAt \in {"opPending", "thenJob", "catchJob"}
    THEN Rejected(CanceledError)
    ELSE r.op

\* C15: the outcome of a trigger promise is a function of what happened to
\* its own request (its Operation's outcome and when its own signal was
\* aborted); the slot and the other requests do not enter it.
C15_PromiseIndependence ==
    \A i \in Calls :
        requests[i].out # Pending => requests[i].out = OwnOutcome(requests[i])

\* C15 witness: the first request was superseded and still fulfilled with its
\* own value while the second request rejected with its own error.
C15_Witness ==
    /\ requests[1].superseded
    /\ requests[1].out[1] = "fulfilled"
    /\ requests[2].out = Rejected("DomainError")

\* C16: a cancel on a request whose signal is aborted already changes nothing
\* but the count of cancel calls; the abort listeners are notified at most
\* once; and a request cancelled more than once settles as it would after the
\* first cancel alone.
C16_CancelIdempotent ==
    /\ [](\A i \in Calls :
            /\ requests[i].notified <= 1
            /\ (requests[i].notified = 1) <=> requests[i].aborted)
    /\ [][\A i \in Calls :
            (requests[i].aborted /\ requests'[i].cancels > requests[i].cancels)
                => requests'[i] =
                     [requests[i] EXCEPT !.cancels = @ + 1,
                                         !.superseded = requests'[i].superseded]]_vars
    /\ [](\A i \in Calls :
            (requests[i].cancels >= 2 /\ requests[i].pc = "done")
                => requests[i].out = OwnOutcome(requests[i]))

\* C16 witness: a request was cancelled by the teardown and again by the next
\* trigger call, its listeners were notified once and its promise has settled.
C16_Witness ==
    \E i \in Calls :
        /\ requests[i].cancels = 2
        /\ requests[i].notified = 1
        /\ requests[i].pc = "done"
----
\* useDebounce

\* clearTimeout(id): a pending timer is cancelled, any other id is ignored
clearTimeout(ts, id) ==
    IF id # 0 /\ ts[id].status = "pending"
    THEN [ts EXCEPT ![id].status = "cleared"]
    ELSE ts

\* Variant of DebouncedCall: the previous timer is not cleared
DebouncedCall_NoClear(a, d) ==
    /\ nDebCalls < MaxDebCalls
    /\ nDebCalls' = nDebCalls + 1
    /\ timers' = [timers EXCEPT ![nDebCalls + 1] =
                     [status |-> "pending", args |-> a, left |-> d,
                      mountedAtCall |-> debMounted]]
    /\ timeoutRef' = nDebCalls + 1
    /\ UNCHANGED <<debMounted, invoked>>
    /\ UNCHANGED nonDebVars

\* debouncedCallback(...args), from a render with delay d: clear the timer in
\* timeoutRef, then start a new one.  Nothing prevents a call after unmount.
DebouncedCall(a, d) ==
    /\ nDebCalls < MaxDebCalls
    /\ nDebCalls' = nDebCalls + 1
    /\ timers' = [clearTimeout(timers, timeoutRef) EXCEPT ![nDebCalls + 1] =
                     [status |-> "pending", args |-> a, left |-> d,
                      mountedAtCall |-> debMounted]]
    /\ timeoutRef' = nDebCalls + 1
    /\ UNCHANGED <<debMounted, invoked>>
    /\ UNCHANGED nonDebVars

\* One unit of time passes; a timer that is due may still fire late
DebTick ==
    /\ \E t \in DebCalls : timers[t].status = "pending" /\ timers[t].left > 0
    /\ timers' = [t \in DebCalls |->
                    IF timers[t].status = "pending" /\ timers[t].left > 0
                    THEN [timers[t] EXCEPT !.left = @ - 1]
                    ELSE timers[t]]
    /\ UNCHANGED <<debMounted, timeoutRef, nDebCalls, invoked>>
    /\ UNCHANGED nonDebVars

\* The timer of call t fires: callback(...args); timeoutRef keeps the id
TimerFire(t) ==
    /\ timers[t].status = "pending"
    /\ timers[t].left = 0
    /\ timers' = [timers EXCEPT ![t].status = "fired"]
    /\ invoked' = Append(invoked, [call |-> t, args |-> timers[t].args,
                                   mounted |-> debMounted])
    /\ UNCHANGED <<debMounted, timeoutRef, nDebCalls>>
    /\ UNCHANGED nonDebVars

\* Variant of DebUnmount: the cleanup does not clear the timer
DebUnmount_NoClear ==
    /\ debMounted
    /\ debMounted' = FALSE
    /\ UNCHANGED <<timeoutRef, timers, nDebCalls, invoked>>
    /\ UNCHANGED nonDebVars

\* The cleanup of useDebounce's effect, run at unmount
DebUnmount ==
    /\ debMounted
    /\ debMounted' = FALSE
    /\ timers' = clearTimeout(timers, timeoutRef)
    /\ UNCHANGED <<timeoutRef, nDebCalls, invoked>>
    /\ UNCHANGED nonDebVars

DebNext ==
    \/ \E a \in DebArgs, d \in 1..MaxDelay : DebouncedCall(a, d)
    \/ DebTick
    \/ \E t \in DebCalls : TimerFire(t)
    \/ DebUnmount

SpecDebounce == Init /\ [][DebNext]_allVars

\* C17: at most one timer is pending, that of the most recent call; the
\* callback is invoked only by the timer of the most recent call once its
\* delay has elapsed, with that call's arguments; so the invocations are of
\* distinct calls in call order and every call superseded by a later call
\* before its timer fired never invokes the callback.
C17_DebounceLastCallWins ==
    /\ [](\A t \in DebCalls :
            timers[t].status = "pending" => t = nDebCalls /\ t = timeoutRef)
    /\ [][\A t \in DebCalls :
            (timers[t].status = "pending" /\ timers'[t].status = "fired")
                => /\ t = nDebCalls
                   /\ timers[t].left = 0
                   /\ invoked' = Append(invoked,
                          [call |-> t, args |-> timers[t].args,
                           mounted |-> debMounted])]_debVars
    /\ [][invoked' # invoked
            => \E t \in DebCalls :
                 timers[t].status = "pending" /\ timers'[t].status = "fired"]_debVars
    /\ [](\A k \in 1..Len(invoked), m \in 1..Len(invoked) :
            k < m => invoked[k].call < invoked[m].call)

\* C17 witness: a burst of two calls produced one invocation, with the
\* arguments of the second call, and the first call's timer was cleared.
C17_Witness ==
    /\ nDebCalls = 2
    /\ timers[1].status = "cleared"
    /\ timers[1].args = "test1"
    /\ timers[1].left > 0
    /\ invoked = <<[call |-> 2, args |-> "test2", mounted |-> TRUE]>>

\* C18 (as claimed): the callback is never invoked after the unmount.
C18_NoInvocationAfterUnmount ==
    \A k \in 1..Len(invoked) : invoked[k].mounted

\* C18 (amended): a timer pending at unmount never fires; the callback is
\* invoked after the unmount only by the timer of a call of the debounced
\* function that was itself made after the unmount.
C18_UnmountClearsPendingTimer ==
    /\ [](\A k \in 1..Len(invoked) :
            ~invoked[k].mounted => ~timers[invoked[k].call].mountedAtCall)
    /\ [](~debMounted
            => \A t \in DebCalls :
                 timers[t].mountedAtCall => timers[t].status # "pending")
    /\ [][(debMounted /\ ~debMounted')
            => \A t \in DebCalls : timers'[t].status # "pending"]_debVars

\* C18 witness: the component was unmounted while a timer was pending; the
\* timer was cleared, time went on, and the callback was not invoked.
C18_Witness ==
    /\ ~debMounted
    /\ nDebCalls = 1
    /\ timers[1].status = "cleared"
    /\ timers[1].mountedAtCall
    /\ invoked = <<>>
----
\* useEffectAfterMount

\* The body of the effect: skip the first run, call fn on every later run
EamEffect(run) ==
    IF ~run
    THEN /\ UNCHANGED <<isMounted, fnCalls>>
    ELSE IF ~isMounted
         THEN /\ isMounted' = TRUE
              /\ UNCHANGED fnCalls
         ELSE /\ fnCalls' = fnCalls + 1
              /\ UNCHANGED isMounted

\* The first render, with deps argument d, and its effect
EamMount(d) ==
    /\ eamRenders = 0
    /\ eamRenders' = 1
    /\ eamDeps' = d
    /\ EamEffect(TRUE)
    /\ eamLast' = [changed |-> FALSE, called |-> fnCalls' # fnCalls]
    /\ UNCHANGED nonEamVars

\* A re-render with deps argument d and its effect.  The effect's dependency
\* list is [deps], so React re-runs it when the array passed as deps is not
\* the very array of the previous render: "same" says it is that array
\* (possibly with changed contents).  The default [] is a new array in every
\* render.
EamRerender(d, same) ==
    /\ eamRenders > 0
    /\ eamRenders < MaxEamRenders
    /\ same => (d # 0 /\ eamDeps # 0)
    /\ eamRenders' = eamRenders + 1
    /\ eamDeps' = d
    /\ EamEffect(~same)
    /\ eamLast' = [changed |-> d # eamDeps, called |-> fnCalls' # fnCalls]
    /\ UNCHANGED nonEamVars

EamNext ==
    \/ \E d \in 0..MaxDepVal : EamMount(d)
    \/ \E d \in 0..MaxDepVal, same \in BOOLEAN : EamRerender(d, same)

SpecAfterMount == Init /\ [][EamNext]_allVars

\* C19 (as claimed): fn is not called for the first render, and a later
\* render calls fn if and only if its dependency values differ from those of
\* the previous render.
C19_CalledIffDepsChanged ==
    /\ eamRenders = 1 => ~eamLast.called
    /\ eamRenders > 1 => (eamLast.called <=> eamLast.changed)
----
\* useControlledState

\* isValueControlled(value)
isValueControlled(vp) == vp # Undefined

\* currentValue of a render with value argument vp and state cell iv
currentValue(vp, iv) == IF isValueControlled(vp) THEN vp[1] ELSE iv

\* The value returned by the hook in the latest render
UcsReturned == currentValue(valueProp, internalValue)

\* The first render, with value argument vp
UcsMount(vp) ==
    /\ ~ucsMounted
    /\ ucsMounted' = TRUE
    /\ valueProp' = vp
    /\ currentValueRef' = currentValue(vp, internalValue)
    /\ UNCHANGED <<internalValue, stateQueue, onChangeLog, nSetCalls, onlyIncrements,
                   lastSetKind>>
    /\ UNCHANGED nonUcsVars

\* A re-render with value argument vp: the pending state update is applied
\* and currentValueRef.current is assigned during the render
UcsRender(vp) ==
    /\ ucsMounted
    /\ vp # valueProp \/ stateQueue # <<>>
    /\ valueProp' = vp
    /\ internalValue' = IF stateQueue # <<>> THEN stateQueue[1] ELSE internalValue
    /\ stateQueue' = <<>>
    /\ currentValueRef' = currentValue(vp, internalValue')
    /\ UNCHANGED <<ucsMounted, onChangeLog, nSetCalls, onlyIncrements, lastSetKind>>
    /\ UNCHANGED nonUcsVars

\* Variant of UcsSet: onChange is called in uncontrolled mode only
UcsSet_OnChangeUncontrolled(resolved, increment) ==
    /\ ucsMounted
    /\ nSetCalls < MaxSetCalls
    /\ nSetCalls' = nSetCalls + 1
    /\ stateQueue' = IF ~isValueControlled(valueProp) THEN <<resolved>> ELSE stateQueue
    /\ onChangeLog' = IF ~isValueControlled(valueProp)
                      THEN Append(onChangeLog, resolved)
                      ELSE onChangeLog
    /\ onlyIncrements' = (onlyIncrements /\ increment /\ ~isValueControlled(valueProp))
    /\ lastSetKind' = IF increment THEN "updater" ELSE "value"
    /\ UNCHANGED <<ucsMounted, valueProp, internalValue, currentValueRef>>
    /\ UNCHANGED nonUcsVars

\* The body of setValue once newValue is resolved
UcsSet(resolved, increment) ==
    /\ ucsMounted
    /\ nSetCalls < MaxSetCalls
    /\ nSetCalls' = nSetCalls + 1
    /\ stateQueue' = IF ~isValueControlled(valueProp) THEN <<resolved>> ELSE stateQueue
    /\ onChangeLog' = Append(onChangeLog, resolved)
    /\ onlyIncrements' = (onlyIncrements /\ increment /\ ~isValueControlled(valueProp))
    /\ lastSetKind' = IF increment THEN "updater" ELSE "value"
    /\ UNCHANGED <<ucsMounted, valueProp, internalValue, currentValueRef>>
    /\ UNCHANGED nonUcsVars

\* setValue(prev => prev + 1): the updater is applied to currentValueRef.current
UcsSetUpdater == UcsSet(currentValueRef + 1, TRUE)

\* setValue(v)
UcsSetDirect(v) == UcsSet(v, FALSE)

UcsNext ==
    \/ \E vp \in PropVals : UcsMount(vp)
    \/ \E vp \in PropVals : UcsRender(vp)
    \/ UcsSetUpdater
    \/ \E v \in 0..MaxPropVal : UcsSetDirect(v)

SpecControlled == Init /\ [][UcsNext]_allVars

\* C20 (as claimed): in uncontrolled mode, after k calls
\* setValue(prev => prev + 1) and the re-render that applies them, the value
\* returned by the hook has increased by k.
C20_UpdaterSeesLatest ==
    (ucsMounted /\ onlyIncrements /\ valueProp = Undefined /\ stateQueue = <<>>)
        => UcsReturned = UcsDefault + nSetCalls

\* C21: in controlled mode the value returned by the hook is the value
\* argument and a setValue call changes neither it nor the state cell; every
\* setValue call, in either mode, calls onChange once with the resolved value
\* (the value passed, or the updater applied to the value returned by the
\* latest render) and nothing else calls onChange, so it is not called by the
\* first render; in uncontrolled mode the render that follows a setValue call
\* returns the resolved value.
C21_ControlledUncontrolled ==
    /\ [](ucsMounted /\ isValueControlled(valueProp) => UcsReturned = valueProp[1])
    /\ [](Len(onChangeLog) = nSetCalls)
    /\ [][nSetCalls' # nSetCalls
            => /\ UcsReturned' = UcsReturned
               /\ Len(onChangeLog') = Len(onChangeLog) + 1
               /\ SubSeq(onChangeLog', 1, Len(onChangeLog)) = onChangeLog
               /\ lastSetKind' = "updater"
                    => onChangeLog'[Len(onChangeLog')] = UcsReturned + 1
               /\ isValueControlled(valueProp)
                    => (stateQueue' = stateQueue /\ internalValue' = internalValue)
               /\ ~isValueControlled(valueProp)
                    => stateQueue' = <<onChangeLog'[Len(onChangeLog')]>>]_ucsVars
    /\ [][(ucsMounted /\ ~isValueControlled(valueProp') /\ stateQueue # <<>>
            /\ stateQueue' = <<>>)
            => UcsReturned' = stateQueue[1]]_ucsVars

\* C21 witness: in controlled mode with value 0, setValue(1) and then
\* setValue(prev => prev + 1) called onChange with 1 and 1, and the hook still
\* returns 0 with an untouched state cell.
C21_Witness ==
    /\ valueProp = <<0>>
    /\ nSetCalls = 2
    /\ lastSetKind = "updater"
    /\ onChangeLog = <<1, 1>>
    /\ UcsReturned = 0
    /\ internalValue = UcsDefault
    /\ stateQueue = <<>>
----
\* useApi

\* The body of the response that the server sends to fetchApi call i
Body(i) == <<"body", fetches[i].url, i>>

\* (err as Error).message for each way a fetchApi call can fail
Message(outcome) ==
    CASE outcome = "status" -> <<"Error: ", 404>>
      [] outcome = "network" -> <<"Failed to fetch">>
      [] outcome = "parse" -> <<"Unexpected token">>

\* fetchApi up to its first await, with the url of the render it was created in
StartFetch(u) ==
    /\ nFetches < MaxFetches
    /\ nFetches' = nFetches + 1
    /\ loading' = TRUE
    /\ error' = Null
    /\ fetches' = [fetches EXCEPT ![nFetches + 1] =
                      [url |-> u, pc |-> "fetching", outcome |-> "none"]]
    /\ UNCHANGED data

\* The first render with url u, and its effect: fetchApi()
ApiMount(u) ==
    /\ ~apiMounted
    /\ apiMounted' = TRUE
    /\ apiUrl' = u
    /\ StartFetch(u)
    /\ UNCHANGED nonApiVars

\* A re-render with another url (or method, headers, body), and its effect
ApiUrlChange(u) ==
    /\ apiMounted
    /\ u # apiUrl
    /\ apiUrl' = u
    /\ StartFetch(u)
    /\ UNCHANGED apiMounted
    /\ UNCHANGED nonApiVars

\* refetch(), the fetchApi of the latest render
ApiRefetch ==
    /\ apiMounted
    /\ StartFetch(apiUrl)
    /\ UNCHANGED <<apiMounted, apiUrl>>
    /\ UNCHANGED nonApiVars

\* The continuation of "await fetch(...)" of call i: the request failed
\* ("network"), the response is not ok ("status"), or response.json() is awaited
FetchSettle(i, r) ==
    /\ fetches[i].pc = "fetching"
    /\ IF r = "ok"
       THEN /\ fetches' = [fetches EXCEPT ![i].pc = "json"]
            /\ UNCHANGED <<loading, error>>
       ELSE /\ fetches' = [fetches EXCEPT ![i].pc = "done", ![i].outcome = r]
            /\ error' = Message(r)
            /\ loading' = FALSE
    /\ UNCHANGED <<apiMounted, apiUrl, data, nFetches>>
    /\ UNCHANGED nonApiVars

\* The continuation of "await response.json()" of call i: setData(result), or
\* the catch block; then the finally block
JsonSettle(i, r) ==
    /\ fetches[i].pc = "json"
    /\ fetches' = [fetches EXCEPT ![i].pc = "done", ![i].outcome = r]
    /\ IF r = "ok"
       THEN /\ data' = Body(i)
            /\ UNCHANGED error
       ELSE /\ error' = Message(r)
            /\ UNCHANGED data
    /\ loading' = FALSE
    /\ UNCHANGED <<apiMounted, apiUrl, nFetches>>
    /\ UNCHANGED nonApiVars

ApiNext ==
    \/ \E u \in Urls : ApiMount(u)
    \/ \E u \in Urls : ApiUrlChange(u)
    \/ ApiRefetch
    \/ \E i \in Fetches, r \in {"ok", "status", "network"} : FetchSettle(i, r)
    \/ \E i \in Fetches, r \in {"ok", "parse"} : JsonSettle(i, r)

SpecApi == Init /\ [][ApiNext]_allVars

\* A fetchApi call that has not settled yet
InFlight(i) == fetches[i].pc \in {"fetching", "json"}

\* C22 (as claimed): loading is true exactly while some fetchApi call has not
\* settled yet.
C22_LoadingWhileInFlight ==
    apiMounted => (loading <=> \E i \in Fetches : InFlight(i))

\* C30 (as claimed): once every fetchApi call made so far has settled, data
\* and error are those of the call that was started last: its body and no
\* error if it succeeded, its error message if it failed.
C30_LatestRequestWins ==
    (nFetches > 0 /\ \A i \in Fetches : ~InFlight(i))
        => IF fetches[nFetches].outcome = "ok"
           THEN data = Body(nFetches) /\ error = Null
           ELSE error = Message(fetches[nFetches].outcome)
----
\* useDocVisible

\* getSnapshot() in a document whose visibilityState is s
getSnapshot(s) == s = "visible"

\* Variant of DvVisibleEffect: onChange is called without comparing with
\* prevVisibleRef.current
DvVisibleEffect_NoCompare(prev, vis, ref) ==
    /\ prevVisibleRef' = vis
    /\ dvLog' = IF ref # 0
                THEN Append(dvLog, [visible |-> vis, cb |-> ref])
                ELSE dvLog

\* The effect with dependency [isVisible], run with prevVisibleRef.current =
\* prev, isVisible = vis and onChangeRef.current = ref
DvVisibleEffect(prev, vis, ref) ==
    IF prev # vis
    THEN /\ prevVisibleRef' = vis
         /\ dvLog' = IF ref # 0
                     THEN Append(dvLog, [visible |-> vis, cb |-> ref])
                     ELSE dvLog
    ELSE /\ prevVisibleRef' = prev
         /\ dvLog' = dvLog

\* The first render with options.onChange = cb, the subscription and the
\* effects of the first render
DvMount(cb) ==
    /\ dvPhase = "init"
    /\ dvPhase' = "mounted"
    /\ isVisible' = getSnapshot(visibilityState)
    /\ dvOnChange' = cb
    /\ onChangeRef' = cb
    /\ dvRefPending' = FALSE
    /\ DvVisibleEffect(isVisible', isVisible', cb)
    /\ UNCHANGED <<visibilityState, nDocEvents>>
    /\ UNCHANGED nonDvVars

\* A re-render by the parent with another onChange callback; isVisible is the
\* snapshot again, so the effect with dependency [isVisible] does not run
DvRender(cb) ==
    /\ dvPhase = "mounted"
    /\ ~dvRefPending
    /\ cb # dvOnChange
    /\ dvOnChange' = cb
    /\ isVisible' = isVisible
    /\ dvRefPending' = TRUE
    /\ UNCHANGED <<dvPhase, visibilityState, onChangeRef, prevVisibleRef, dvLog,
                   nDocEvents>>
    /\ UNCHANGED nonDvVars

\* The effect with dependency [options?.onChange]
DvRefEffect ==
    /\ dvPhase = "mounted"
    /\ dvRefPending
    /\ onChangeRef' = dvOnChange
    /\ dvRefPending' = FALSE
    /\ UNCHANGED <<dvPhase, visibilityState, isVisible, dvOnChange, prevVisibleRef,
                   dvLog, nDocEvents>>
    /\ UNCHANGED nonDvVars

\* document.visibilityState becomes s (possibly the value it has) and a
\* visibilitychange event is dispatched.  The subscribed store compares the
\* snapshot with the rendered one; if it differs the hook re-renders (after
\* the pending effects of the previous render) and its effects run.
DocEvent(s) ==
    /\ nDocEvents < MaxDocEvents
    /\ nDocEvents' = nDocEvents + 1
    /\ visibilityState' = s
    /\ IF dvPhase = "mounted" /\ getSnapshot(s) # isVisible
       THEN /\ isVisible' = getSnapshot(s)
            /\ onChangeRef' = dvOnChange
            /\ dvRefPending' = FALSE
            /\ DvVisibleEffect(prevVisibleRef, isVisible', onChangeRef')
       ELSE UNCHANGED <<isVisible, onChangeRef, dvRefPending, prevVisibleRef, dvLog>>
    /\ UNCHANGED <<dvPhase, dvOnChange>>
    /\ UNCHANGED nonDvVars

\* Unmount: the pending effects run, then the subscription is removed
DvUnmount ==
    /\ dvPhase = "mounted"
    /\ dvPhase' = "gone"
    /\ onChangeRef' = dvOnChange
    /\ dvRefPending' = FALSE
    /\ UNCHANGED <<visibilityState, isVisible, dvOnChange, prevVisibleRef, dvLog,
                   nDocEvents>>
    /\ UNCHANGED nonDvVars

DvNext ==
    \/ \E cb \in Callbacks : DvMount(cb)
    \/ \E cb \in Callbacks : DvRender(cb)
    \/ DvRefEffect
    \/ \E s \in VisibilityStates : DocEvent(s)
    \/ DvUnmount

SpecDocVisible == Init /\ [][DvNext]_allVars

----
\* useMounted

\* One call of a callback: which one, which function, and isMounted.current
\* during the call
UmCall(what, k) == [call |-> what, fn |-> k, mounted |-> umIsMounted']

\* The first render with options o: isMounted = useRef(false), cleanupRef = useRef()
UmRender(o) ==
    /\ umPhase = "init"
    /\ umPhase' = "rendered"
    /\ umFirst' = o
    /\ umLatest' = o
    /\ umIsMounted' = FALSE
    /\ cleanupRef' = 0
    /\ UNCHANGED umLog
    /\ UNCHANGED nonUmVars

\* The effect of the first render
UmEffect ==
    /\ umPhase = "rendered"
    /\ umPhase' = "mounted"
    /\ umIsMounted' = TRUE
    /\ IF umFirst.onMount # 0
       THEN /\ umLog' = Append(umLog, UmCall("onMount", umFirst.onMount))
            /\ cleanupRef' = IF umFirst.returnsCleanup THEN umFirst.onMount ELSE 0
       ELSE UNCHANGED <<umLog, cleanupRef>>
    /\ UNCHANGED <<umFirst, umLatest>>
    /\ UNCHANGED nonUmVars

\* A re-render with other options: the effect has no dependencies and does
\* not run again
UmRerender(o) ==
    /\ umPhase = "mounted"
    /\ o # umLatest
    /\ umLatest' = o
    /\ UNCHANGED <<umPhase, umIsMounted, cleanupRef, umFirst, umLog>>
    /\ UNCHANGED nonUmVars

\* Variant of UmUnmount: onUnmount is called before the cleanup of onMount
UmUnmount_OnUnmountFirst ==
    /\ umPhase = "mounted"
    /\ umPhase' = "gone"
    /\ umIsMounted' = FALSE
    /\ umLog' = umLog
                \o (IF umFirst.onUnmount # 0
                    THEN <<UmCall("onUnmount", umFirst.onUnmount)>> ELSE <<>>)
                \o (IF cleanupRef # 0
                    THEN <<UmCall("cleanup", cleanupRef)>> ELSE <<>>)
    /\ UNCHANGED <<cleanupRef, umFirst, umLatest>>
    /\ UNCHANGED nonUmVars

\* The cleanup of the effect, run at unmount
UmUnmount ==
    /\ umPhase = "mounted"
    /\ umPhase' = "gone"
    /\ umIsMounted' = FALSE
    /\ umLog' = umLog
                \o (IF cleanupRef # 0
                    THEN <<UmCall("cleanup", cleanupRef)>> ELSE <<>>)
                \o (IF umFirst.onUnmount # 0
                    THEN <<UmCall("onUnmount", umFirst.onUnmount)>> ELSE <<>>)
    /\ UNCHANGED <<cleanupRef, umFirst, umLatest>>
    /\ UNCHANGED nonUmVars

UmNext ==
    \/ \E o \in UmOptions : UmRender(o)
    \/ UmEffect
    \/ \E o \in UmOptions : UmRerender(o)
    \/ UmUnmount

SpecMounted == Init /\ [][UmNext]_allVars

\* C24: the returned function yields true exactly from the mount effect to
\* the unmount; nothing is called before the mount effect; from the mount
\* effect on onMount (if passed to the first render) has been called once,
\* seeing true; after the unmount the calls are, in this order: onMount, the
\* cleanup it returned (if any) and onUnmount (if passed to the first render),
\* each once, the last two seeing false.
C24_MountedLifecycle ==
    LET o == umFirst
        mountCalls ==
            IF o.onMount # 0
            THEN <<[call |-> "onMount", fn |-> o.onMount, mounted |-> TRUE]>>
            ELSE <<>>
        cleanupCalls ==
            IF o.onMount # 0 /\ o.returnsCleanup
            THEN <<[call |-> "cleanup", fn |-> o.onMount, mounted |-> FALSE]>>
            ELSE <<>>
        unmountCalls ==
            IF o.onUnmount # 0
            THEN <<[call |-> "onUnmount", fn |-> o.onUnmount, mounted |-> FALSE]>>
            ELSE <<>>
    IN  /\ umIsMounted <=> (umPhase = "mounted")
        /\ umPhase \in {"init", "rendered"} => umLog = <<>>
        /\ umPhase = "mounted" => umLog = mountCalls
        /\ umPhase = "gone" => umLog = mountCalls \o cleanupCalls \o unmountCalls

\* C24 witness: after the unmount, onMount 1, its cleanup and onUnmount 1 were
\* called once each in this order, although a later render passed onUnmount 2.
C24_Witness ==
    /\ umPhase = "gone"
    /\ ~umIsMounted
    /\ umLatest.onUnmount = 2
    /\ umLog = <<[call |-> "onMount", fn |-> 1, mounted |-> TRUE],
                 [call |-> "cleanup", fn |-> 1, mounted |-> FALSE],
                 [call |-> "onUnmount", fn |-> 1, mounted |-> FALSE]>>
----
\* usePersistedState

\* JSON.parse(s) does not throw
Parsable(s) == s[1] \in {"json", "json with white space"}

\* JSON.parse(s) for a parsable s
parse(s) == s[2]

\* A string or null used as a condition: null and "" are falsy
Truthy(s) == s # NoItem /\ s # EmptyString

\* The initializer of useState: the parsed item, or initialValue if there
\* is no item, if getItem throws or if JSON.parse throws
PsInitialState(k, initialValue, getItemThrows) ==
    IF getItemThrows THEN initialValue
    ELSE IF ~Truthy(localStorage[k]) THEN initialValue
    ELSE IF Parsable(localStorage[k]) THEN parse(localStorage[k])
    ELSE initialValue

\* Variant of PsMount: the effect of the first render writes the state
PsMount_WritesInitial(k, initialValue, getItemThrows) ==
    /\ psPhase = "init"
    /\ psPhase' = "mounted"
    /\ psKey' = k
    /\ psValue' = PsInitialState(k, initialValue, getItemThrows)
    /\ isFirstRender' = FALSE
    /\ localStorage' = [localStorage EXCEPT ![k] = stringify(psValue')]
    /\ UNCHANGED <<psEffectPending, psErrors, psWarnings, psLastChange,
                   psLastEvent, nPsSets, nPsEvents>>
    /\ UNCHANGED nonPsVars

\* The first render with key k and its effects: the first effect only clears
\* isFirstRender.current, the second one adds the storage listener
PsMount(k, initialValue, getItemThrows) ==
    /\ psPhase = "init"
    /\ psPhase' = "mounted"
    /\ psKey' = k
    /\ psValue' = PsInitialState(k, initialValue, getItemThrows)
    /\ isFirstRender' = FALSE
    /\ UNCHANGED <<localStorage, psEffectPending, psErrors, psWarnings, psLastChange,
                   psLastEvent, nPsSets, nPsEvents>>
    /\ UNCHANGED nonPsVars

\* The setter called with v (or with an updater that yields v), and the
\* re-render; setting the value the state has does not re-render
PsSet(v) ==
    /\ psPhase = "mounted"
    /\ nPsSets + nPsEvents < MaxPsOps
    /\ nPsSets' = nPsSets + 1
    /\ IF v # psValue
       THEN /\ psValue' = v
            /\ psEffectPending' = TRUE
            /\ psLastChange' = "setter"
       ELSE UNCHANGED <<psValue, psEffectPending, psLastChange>>
    /\ UNCHANGED <<psPhase, psKey, localStorage, isFirstRender, psErrors, psWarnings,
                   psLastEvent, nPsEvents>>
    /\ UNCHANGED nonPsVars

\* The effect on [key, value] after a re-render: setItem may throw (storage
\* full or disabled), which is caught and logged
PsEffect(setItemThrows) ==
    /\ psPhase = "mounted"
    /\ psEffectPending
    /\ psEffectPending' = FALSE
    /\ IF isFirstRender
       THEN /\ isFirstRender' = FALSE
            /\ UNCHANGED <<localStorage, psErrors>>
       ELSE /\ UNCHANGED isFirstRender
            /\ IF setItemThrows
               THEN /\ psErrors' = psErrors + 1
                    /\ UNCHANGED localStorage
               ELSE /\ localStorage' = [localStorage EXCEPT ![psKey] = stringify(psValue)]
                    /\ UNCHANGED psErrors
    /\ UNCHANGED <<psPhase, psKey, psValue, psWarnings, psLastChange, psLastEvent,
                   nPsSets, nPsEvents>>
    /\ UNCHANGED nonPsVars

\* Another document sets the item under key k to nv (or removes it: NoItem)
\* and this window receives the storage event: handleStorageChange
StorageEvent(k, nv) ==
    /\ nPsSets + nPsEvents < MaxPsOps
    /\ nPsEvents' = nPsEvents + 1
    /\ localStorage' = [localStorage EXCEPT ![k] = nv]
    /\ psLastEvent' = [key |-> k, newValue |-> nv]
    /\ IF psPhase = "mounted" /\ k = psKey /\ Truthy(nv)
       THEN IF Parsable(nv)
            THEN /\ UNCHANGED psWarnings
                 /\ IF parse(nv) # psValue
                    THEN /\ psValue' = parse(nv)
                         /\ psEffectPending' = TRUE
                         /\ psLastChange' = "event"
                    ELSE UNCHANGED <<psValue, psEffectPending, psLastChange>>
            ELSE /\ psWarnings' = psWarnings + 1
                 /\ UNCHANGED <<psValue, psEffectPending, psLastChange>>
       ELSE UNCHANGED <<psValue, psEffectPending, psLastChange, psWarnings>>
    /\ UNCHANGED <<psPhase, psKey, isFirstRender, psErrors, nPsSets>>
    /\ UNCHANGED nonPsVars

\* Unmount, after the effects of the latest render: the listener is removed
PsUnmount ==
    /\ psPhase = "mounted"
    /\ ~psEffectPending
    /\ psPhase' = "gone"
    /\ UNCHANGED <<psKey, localStorage, psValue, isFirstRender, psEffectPending,
                   psErrors, psWarnings, psLastChange, psLastEvent, nPsSets, nPsEvents>>
    /\ UNCHANGED nonPsVars

PsNext ==
    \/ \E k \in PsKeys, iv \in PsVals, t \in BOOLEAN : PsMount(k, iv, t)
    \/ \E v \in PsVals : PsSet(v)
    \/ \E t \in BOOLEAN : PsEffect(t)
    \/ \E k \in PsKeys, nv \in PsStrings \cup {NoItem} : StorageEvent(k, nv)
    \/ PsUnmount

SpecPersisted == Init /\ [][PsNext]_allVars

\* C25 (as claimed): when the effect that follows a state change made through
\* the setter has run, localStorage[key] is the JSON text of the state; the
\* first render writes nothing; a storage event for the key with a parsable
\* newValue sets the state to the parsed value, any other storage event
\* leaves the state unchanged.
C25_PersistsEveryChange ==
    /\ [][(psEffectPending /\ ~psEffectPending' /\ psLastChange = "setter")
            => localStorage'[psKey] = stringify(psValue')]_psVars
    /\ [][(psPhase = "init" /\ psPhase' = "mounted")
            => localStorage' = localStorage]_psVars
    /\ [][(nPsEvents' # nPsEvents /\ psPhase = "mounted")
            => psValue' = IF /\ psLastEvent'.key = psKey
                             /\ psLastEvent'.newValue # NoItem
                             /\ Parsable(psLastEvent'.newValue)
                          THEN parse(psLastEvent'.newValue)
                          ELSE psValue]_psVars

\* C25 (amended): as claimed, except that the effect leaves localStorage as it
\* is and logs an error when setItem throws.
C25_PersistsUnlessSetItemThrows ==
    /\ [][(psEffectPending /\ ~psEffectPending' /\ psLastChange = "setter")
            => \/ /\ localStorage'[psKey] = stringify(psValue')
                  /\ psErrors' = psErrors
               \/ /\ localStorage' = localStorage
                  /\ psErrors' = psErrors + 1]_psVars
    /\ [][(psPhase = "init" /\ psPhase' = "mounted")
            => (localStorage' = localStorage /\ psErrors' = psErrors)]_psVars
    /\ [][(nPsEvents' # nPsEvents /\ psPhase = "mounted")
            => psValue' = IF /\ psLastEvent'.key = psKey
                             /\ psLastEvent'.newValue # NoItem
                             /\ Parsable(psLastEvent'.newValue)
                          THEN parse(psLastEvent'.newValue)
                          ELSE psValue]_psVars

\* C25 witness: a storage event for the key set the state to 1, the effect
\* rewrote the item, then the setter set the state to 0 and the effect wrote
\* its JSON text; no write failed.
C25_Witness ==
    /\ psPhase = "mounted"
    /\ psKey = 1
    /\ psLastEvent = [key |-> 1, newValue |-> Spaced(1)]
    /\ psLastChange = "setter"
    /\ ~psEffectPending
    /\ psErrors = 0
    /\ psValue = 0
    /\ nPsSets = 1
    /\ nPsEvents = 1
    /\ localStorage[1] = stringify(0)
----
\* useSequentialRequest, continued

\* C26 (as claimed): if cancel is first invoked on a request after its
\* Operation's promise has settled and before the handlers of run() have run,
\* the trigger promise rejects with the cancellation error, whether the
\* Operation fulfilled or rejected.
C26_SameTurnCancelWins ==
    \A i \in Calls :
        (requests[i].cancelAt \in {"thenJob", "catchJob"} /\ requests[i].out # Pending)
            => requests[i].out = Rejected(CanceledError)

\* C27: the slot changes only when a trigger call installs the request it has
\* just built and when the settlement continuation of the occupant empties
\* it; the teardown cancels the occupant and leaves the slot as it is, and a
\* change of the Operation reference leaves the slot as it is.
C27_SlotWriters ==
    /\ [][currentRequest' # currentRequest
            => \/ /\ callPc = "cancelled"
                  /\ callPc' = "installed"
                  /\ currentRequest' = nCalls'
                  /\ requests[currentRequest'].pc = "none"
                  /\ requests'[currentRequest'].pc = "built"
               \/ /\ currentRequest # 0
                  /\ requests[currentRequest].pc = "awaitJob"
                  /\ requests'[currentRequest].pc = "done"
                  /\ currentRequest' = 0]_vars
    /\ [][(mounted /\ ~mounted')
            => /\ currentRequest' = currentRequest
               /\ currentRequest # 0 => requests'[currentRequest].aborted]_vars
    /\ [][(requestFn' # requestFn \/ requestFnRef' # requestFnRef)
            => currentRequest' = currentRequest]_vars

\* C27 witness: after the teardown the slot still holds the second request,
\* now aborted and still in flight; the Operation reference had changed
\* between the two trigger calls.
C27_Witness ==
    /\ ~mounted
    /\ nCalls = 2
    /\ currentRequest = 2
    /\ requests[1].fn = 1
    /\ requests[2].fn = 2
    /\ requests[2].pc = "opPending"
    /\ requests[2].aborted
    /\ ~requests[2].superseded
    /\ requests[2].cancels = 1

\* C28: if the Operation's promise of a request rejected, with whatever
\* error, and cancel was invoked on the request before the catch handler ran
\* (before or after the rejection), then the run() promise and the trigger
\* promise reject with the cancellation error and not with the Operation's
\* error.
C28_CancelledRejectionIsCanceled ==
    \A i \in Calls :
        (/\ requests[i].op[1] = "rejected"
         /\ requests[i].cancelAt \in {"built", "opPending", "thenJob", "catchJob"})
        => /\ requests[i].runP \in {Pending, Rejected(CanceledError)}
           /\ requests[i].out \in {Pending, Rejected(CanceledError)}
           /\ requests[i].pc = "done" => requests[i].out = Rejected(CanceledError)

\* C28 witness: the first request was cancelled while its Operation was
\* pending, the second one after its Operation had rejected; both Operations
\* rejected with a domain error and both trigger promises rejected with the
\* cancellation error.
C28_Witness ==
    /\ requests[1].cancelAt = "opPending"
    /\ requests[1].op = Rejected("DomainError")
    /\ requests[1].out = Rejected(CanceledError)
    /\ requests[2].cancelAt \in {"thenJob", "catchJob"}
    /\ requests[2].op = Rejected("DomainError")
    /\ requests[2].out = Rejected(CanceledError)

\* C29: the teardown leaves no request unsettled and un-aborted, and no step
\* other than a trigger call changes that; a trigger call made after the
\* teardown builds a request, installs it in the slot and invokes its
\* Operation with a signal that is not aborted; and after the teardown only
\* the cancel statement of a trigger call invokes cancel.
C29_AfterTeardown ==
    /\ [][(mounted /\ ~mounted') => \A i \in Calls : ~Live(i)']_vars
    /\ [][(~mounted /\ callPc = "idle" /\ callPc' = "idle"
            /\ \A i \in Calls : ~Live(i))
            => \A i \in Calls : ~Live(i)']_vars
    /\ [][(~mounted /\ callPc = "installed" /\ callPc' = "idle")
            => /\ currentRequest' = nCalls
               /\ requests[nCalls].pc = "built"
               /\ requests'[nCalls].pc = "opPending"
               /\ ~requests'[nCalls].aborted]_vars
    /\ [][(~mounted /\ \E i \in Calls : requests'[i].cancels > requests[i].cancels)
            => (callPc = "idle" /\ callPc' = "cancelled")]_vars

\* C29 witness: the teardown cancelled the first request in flight; a trigger
\* call made afterwards built the second request, which ran to completion
\* without ever being cancelled.
C29_Witness ==
    /\ ~mounted
    /\ requests[1].cancelAt = "opPending"
    /\ ~requests[1].superseded
    /\ requests[2].pc = "done"
    /\ requests[2].cancels = 0
    /\ requests[2].out = Fulfilled(Result(requests[2].fn))
====
